---- MODULE Spec2Model ----
(***************************************************************************)
(* State-machine model of the data-access hooks of the dashboard client    *)
(* (frontend/src/hooks/useApi.js): useApi, usePollingApi and               *)
(* useInfiniteApi on top of the react-query (v3) query cache they          *)
(* configure with retry: 3, retryDelay, staleTime and cacheTime.           *)
(*                                                                         *)
(* One cache entry ("query") per query key; one retryer per logical fetch; *)
(* every component that calls a hook is an observer of the query of its    *)
(* current key.  Time is a millisecond clock that advances in steps of     *)
(* TickMs.                                                                 *)
(***************************************************************************)
EXTENDS Integers, Sequences, FiniteSets, TLC

\* ------------------------------------------------------------------ bounds
MaxFetches == 3      \* logical fetches started in one behaviour
MaxTicks == 2        \* clock steps in one behaviour
MaxPage == 3         \* pages the paginated hook may reach
MaxRetryCount == 1   \* clicks on retry() per mounted component
MaxAttemptIndex == 20 \* attempt indexes given to retryDelay on its own
MaxDebounceSteps == 4 \* steps of the timer clock in one behaviour
MaxBurst == 3        \* raw key changes between two firings of the debounce timer
MaxSegments == 3     \* segments given to the fan-out
MaxPolls == 2
MaxRequests == 3     \* HTTP requests issued in one behaviour of the session

\* --------------------------------------------------------- program constants
retry == 3                         \* useApi.js:19
baseDelay == 1000                  \* useApi.js:20
maxDelay == 30000                  \* useApi.js:20
staleTime == 5 * 60 * 1000         \* useApi.js:21
cacheTime == 10 * 60 * 1000        \* useApi.js:22
defaultPageSize == 20              \* useApi.js:76
defaultDelay == 500                \* useApi.js:109

\* Granularity of the model clock: one stale-time.  A network call is cut off
\* by the transport after 10 s (timeout: 10000 of the axios clients), so at
\* most one clock step passes while a call is in flight (see Tick).
TickMs == staleTime
Epoch == TickMs
MaxClock == Epoch + MaxTicks * TickMs
MaxPollClock == Epoch + MaxPolls * 30000

\* ------------------------------------------------------------------ domains
QueryKeys == {1, 2}                 \* keys used by the useApi components
Keys == 1..MaxPage                  \* keys of the cache ([queryKey, page] for pages)
ApiHooks == {"h1", "h2"}            \* h1 calls useApi, h2 calls usePollingApi
InfHook == "inf"                    \* the component calling useInfiniteApi
DebHook == "deb"                    \* the component calling useDebouncedApi
Delays == {defaultDelay, defaultDelay \div 2}  \* values of the delay argument
StepMs == defaultDelay \div 2       \* granularity of the timer clock
MaxNow == MaxDebounceSteps * StepMs
SegmentIds == 1..MaxSegments        \* segment_id values
StorageKeys == {"token", "authToken"}  \* the localStorage keys the code uses
ApiClients == {"analyticsApi", "recommendationApi", "userApi"}
Statuses == {0, 200, 401, 500}      \* HTTP status of a response (0: no response)
StoredToken == MaxRequests + 5      \* a token left in localStorage by an earlier visit
ErrorClasses == {"network", "timeout", "http4xx", "http5xx"}

\* usePollingApi passes refetchInterval; useApi leaves it unset.
refetchInterval(h) == IF h = "h2" THEN 30000 ELSE 0

VARIABLES
  clock,        \* Date.now()
  queries,      \* the query cache: key -> query state
  retryers,     \* the running logical fetches (one retryer each)
  nextSeq,      \* number of logical fetches triggered so far
  hMounted,     \* ApiHooks -> is the component mounted
  hKey,         \* ApiHooks -> the queryKey the component passes to useApi
  hRetryCount,  \* ApiHooks -> useState retryCount
  page,         \* useInfiniteApi: useState page
  hasMore,      \* useInfiniteApi: useState hasMore
  optPageSize,  \* options.pageSize passed to useInfiniteApi (0: not passed)
  apiPageSize,  \* page size apiFunction(page) actually requests
  keyEpoch,     \* history: fetches triggered before the last reset() or page change
  lastOp,       \* the operation that produced the current state
  dN, dM,       \* retry policy on its own: two attempt indexes
  dDelayN,      \* ... and the delays computed for them (-1: not yet)
  dDelayM,
  fetchedAt,    \* history: key -> time of its last successful fetch (0: none)
  dbMounted,    \* useDebouncedApi: is the component mounted
  dbQueryKey,   \* ... the queryKey argument of its last render
  dbDelay,      \* ... the delay argument of its last render
  debouncedQueryKey, \* ... useState debouncedQueryKey
  dbTimer,      \* ... the timer of the last run of the effect (its closure)
  dbTimers,     \* the setTimeout timers that are pending
  dbNow,        \* the clock of the timers, in ms
  rawChangedAt, \* history: time of the last change of queryKey (or mount)
  dbChanges,    \* history: changes of debouncedQueryKey since then
  dbBurst,      \* history: changes of queryKey since mount or the last firing
  segments,     \* SegmentExplorer: the segments of useApp()
  insightsPromises, \* ... the promises of segments.map(async ...)
  allPromise,   \* ... the promise of Promise.all(insightsPromises)
  issued,       \* the getSegmentInsights calls issued and not yet answered
  settleOrder,  \* history: indexes of the promises in the order they settled
  caught,       \* history: index -> error the catch block received ("none")
  localStorage, \* StorageKeys -> the stored token (0: no item)
  location,     \* window.location.href
  navigating,   \* the document is being replaced after location.href = ...
  user,         \* AuthProvider: useState user (0: null)
  loading,      \* AuthProvider: useState loading
  authError,    \* AuthProvider: useState error
  requests,     \* the HTTP requests in flight
  nRequests,    \* number of requests issued so far
  loginStored,  \* history: the token stored by the last successful login (0: none)
  sessionExpired, \* history: number of times the 401 handler ran
  lastResponse, \* history: the last response, and what its caller got
  authResult,   \* history: what the last login or register call returned
  unauthorized, \* history: a 401 came back since the last successful login
  enabled,      \* usePollingApi: the enabled option of the component
  pollDue       \* usePollingApi: when the interval timer fires next (0: no timer)

vars == <<clock, queries, retryers, nextSeq, hMounted, hKey,
          hRetryCount, page, hasMore, optPageSize, apiPageSize, keyEpoch,
          lastOp, dN, dM, dDelayN, dDelayM, fetchedAt,
          dbMounted, dbQueryKey, dbDelay, debouncedQueryKey, dbTimer, dbTimers,
          dbNow, rawChangedAt, dbChanges, dbBurst,
          segments, insightsPromises, allPromise, issued, settleOrder, caught,
          localStorage, location, navigating, user, loading, authError,
          requests,
          nRequests, loginStored, sessionExpired, lastResponse, authResult,
          unauthorized, enabled, pollDue>>

\* ------------------------------------------------------------ retry policy
RECURSIVE Pow2(_)
Pow2(n) == IF n = 0 THEN 1 ELSE 2 * Pow2(n - 1)

Min(a, b) == IF a < b THEN a ELSE b

retryDelayUncapped(attemptIndex) == baseDelay * Pow2(attemptIndex)

\* retryDelay: (attemptIndex) => Math.min(1000 * 2 ** attemptIndex, 30000)
retryDelay(attemptIndex) == Min(baseDelay * Pow2(attemptIndex), maxDelay)

shouldRetryOnceMore(failureCount, error) == failureCount <= retry

\* retry: 3 -- a failed attempt is retried while fewer than 3 attempts of the
\* logical fetch have failed; the error itself is not inspected.
shouldRetry(failureCount, error) == failureCount < retry

\* ------------------------------------------------------------- query state
\* The data of an entry is named by the fetch that returned it (0: undefined).
NoData == [seq |-> 0]

DefaultState ==
  [exists |-> FALSE, status |-> "idle", data |-> NoData, dataUpdatedAt |-> 0,
   error |-> "none", isFetching |-> FALSE, gcAt |-> 0, observers |-> {}]

\* The cache, the retryers and the fetch counter as one value, so that the
\* steps of a handler compose.
World == [q |-> queries, rs |-> retryers, seq |-> nextSeq]

Commit(w) ==
  /\ queries' = w.q
  /\ retryers' = w.rs
  /\ nextSeq' = w.seq

isStaleAlways(st, now) == TRUE

\* staleTime: data is fresh while now < dataUpdatedAt + staleTime.
isStale(st, now) == st.dataUpdatedAt = 0 \/ now >= st.dataUpdatedAt + staleTime

\* cacheTime: an entry without observers is collected cacheTime after it
\* lost its last observer.
scheduleGc(st, now) == [st EXCEPT !.gcAt = now + cacheTime]

\* First observation of a key creates its entry.
build(w, k) ==
  IF w.q[k].exists THEN w
  ELSE [w EXCEPT !.q[k] = scheduleGc([DefaultState EXCEPT !.exists = TRUE], clock)]

continueRetry(rs, k) ==
  {IF r.key = k THEN [r EXCEPT !.cancelled = FALSE] ELSE r : r \in rs}

cancelRetry(rs, k) ==
  {IF r.key = k THEN [r EXCEPT !.cancelled = TRUE] ELSE r : r \in rs}

addObserver(w, k, h) ==
  [w EXCEPT !.q[k].observers = @ \cup {h}, !.q[k].gcAt = 0]

\* The promises of the API clients cannot be cancelled: a fetch whose last
\* observer leaves runs its current attempt to the end but is not retried.
removeObserver(w, k, h) ==
  LET rest == w.q[k].observers \ {h} IN
  IF rest # {} THEN [w EXCEPT !.q[k].observers = rest]
  ELSE [w EXCEPT !.q[k] = scheduleGc([@ EXCEPT !.observers = {}], clock),
                 !.rs = cancelRetry(@, k)]

isDedupedNever(st) == FALSE

\* Request deduplication: a trigger that finds the query fetching attaches to
\* the fetch in flight.
isDeduped(st) == st.isFetching

NewRetryer(k, n) ==
  [key |-> k, seq |-> n, phase |-> "calling", failureCount |-> 0,
   lastError |-> "none", cancelled |-> FALSE,
   calls |-> 1, startedAt |-> clock, delay |-> 0]

\* A new logical fetch: the query goes to fetching (and to loading when it
\* has no data yet) and the first call is made.
startFetch(w, k) ==
  [w EXCEPT
     !.q[k] = [@ EXCEPT !.isFetching = TRUE,
                        !.status = IF w.q[k].dataUpdatedAt = 0 THEN "loading" ELSE @,
                        !.error = IF w.q[k].dataUpdatedAt = 0 THEN "none" ELSE @],
     !.rs = @ \cup {NewRetryer(k, w.seq + 1)},
     !.seq = @ + 1]

\* query.fetch(): every trigger of useQuery ends here.
queryFetch(w, k) ==
  IF isDeduped(w.q[k]) THEN [w EXCEPT !.rs = continueRetry(@, k)]
  ELSE startFetch(w, k)

\* Mount and key change fetch only when the entry is stale (or empty).
fetchIfStale(w, k) == IF isStale(w.q[k], clock) THEN queryFetch(w, k) ELSE w

\* Reducer of the query state.
onSuccess(st, r) ==
  [st EXCEPT !.data = [seq |-> r.seq], !.dataUpdatedAt = clock,
             !.error = "none", !.isFetching = FALSE,
             !.status = "success"]

onErrorDropsData(st, error) ==
  [st EXCEPT !.error = error, !.isFetching = FALSE, !.status = "error",
             !.data = NoData, !.dataUpdatedAt = 0]

onError(st, error) ==
  [st EXCEPT !.error = error, !.isFetching = FALSE, !.status = "error"]

\* ------------------------------------------------- what a component is shown
Data(k) == queries[k].data
IsLoading(k) == queries[k].status = "loading"
IsError(k) == queries[k].status = "error"
IsFetching(k) == queries[k].isFetching

Calling(k) == {r \in retryers : r.key = k /\ r.phase = "calling"}

\* lastOp: the operation, the key it acted on and, for the steps of a
\* retryer, the retryer as it was, the error class of a failed response and
\* the number of items of a successful one.
NoRetryer ==
  [key |-> 0, seq |-> 0, phase |-> "none", failureCount |-> 0,
   lastError |-> "none", cancelled |-> FALSE, calls |-> 0, startedAt |-> 0,
   delay |-> 0]

Op(name, k) ==
  [op |-> name, key |-> k, r |-> NoRetryer, error |-> "none", len |-> 0]

RetryerOp(name, r, e) ==
  [op |-> name, key |-> r.key, r |-> r, error |-> e, len |-> 0]

hookVars == <<hMounted, hKey, hRetryCount>>
pollVars == <<enabled, pollDue>>
infVars == <<page, hasMore, optPageSize, apiPageSize, keyEpoch>>
delayVars == <<dN, dM, dDelayN, dDelayM>>
cacheVars == <<clock, queries, retryers, nextSeq>>
authVars == <<localStorage, location, navigating, user, loading, authError,
              requests, nRequests, loginStored, sessionExpired, lastResponse,
              authResult, unauthorized>>
fanVars == <<segments, insightsPromises, allPromise, issued, settleOrder,
             caught>>
debVars == <<dbMounted, dbQueryKey, dbDelay, debouncedQueryKey, dbTimer,
             dbTimers, dbNow, rawChangedAt, dbChanges, dbBurst>>

\* ------------------------------------------------------------ useApi actions
\* A component calling useApi(k, ...) mounts: its observer subscribes and
\* fetches if the entry is empty or stale.
Mount(h, k) ==
  /\ ~hMounted[h]
  /\ LET w == fetchIfStale(addObserver(build(World, k), k, h), k) IN
       /\ w.seq <= MaxFetches
       /\ Commit(w)
  /\ hMounted' = [hMounted EXCEPT ![h] = TRUE]
  /\ hKey' = [hKey EXCEPT ![h] = k]
  /\ hRetryCount' = [hRetryCount EXCEPT ![h] = 0]
  /\ lastOp' = Op("Mount", k)
  /\ UNCHANGED <<clock, infVars, delayVars, fetchedAt, debVars, fanVars, authVars, pollVars>>

Unmount(h) ==
  /\ hMounted[h]
  /\ Commit(removeObserver(World, hKey[h], h))
  /\ hMounted' = [hMounted EXCEPT ![h] = FALSE]
  /\ hKey' = [hKey EXCEPT ![h] = 1]
  /\ hRetryCount' = [hRetryCount EXCEPT ![h] = 0]
  /\ lastOp' = Op("Unmount", hKey[h])
  /\ UNCHANGED <<clock, infVars, delayVars, fetchedAt, debVars, fanVars, authVars, pollVars>>

\* The component re-renders with another queryKey: the observer moves to the
\* query of the new key and fetches it if it is empty or stale.  The
\* component's useState values survive.
SetKey(h, k) ==
  /\ hMounted[h]
  /\ k # hKey[h]
  /\ LET w0 == build(World, k)
         w1 == removeObserver(w0, hKey[h], h)
         w2 == fetchIfStale(addObserver(w1, k, h), k)
     IN  /\ w2.seq <= MaxFetches
         /\ Commit(w2)
  /\ hKey' = [hKey EXCEPT ![h] = k]
  /\ lastOp' = Op("SetKey", k)
  /\ UNCHANGED <<clock, hMounted, hRetryCount, infVars, delayVars, fetchedAt, debVars, fanVars, authVars, pollVars>>

refetchAnew(w, k) == startFetch(w, k)

\* refetch(): fetch whatever the freshness of the entry.
refetch(w, k) == queryFetch(w, k)

Refetch(h) ==
  /\ hMounted[h]
  /\ LET w == refetch(World, hKey[h]) IN
       /\ w.seq <= MaxFetches
       /\ Commit(w)
  /\ lastOp' = Op("Refetch", hKey[h])
  /\ UNCHANGED <<clock, hookVars, infVars, delayVars, fetchedAt, debVars, fanVars, authVars, pollVars>>

\* handleRetry: setRetryCount(prev => prev + 1); refetch()
handleRetry(h) ==
  /\ hMounted[h]
  /\ hRetryCount[h] < MaxRetryCount
  /\ hRetryCount' = [hRetryCount EXCEPT ![h] = @ + 1]
  /\ LET w == refetch(World, hKey[h]) IN
       /\ w.seq <= MaxFetches
       /\ Commit(w)
  /\ lastOp' = Op("handleRetry", hKey[h])
  /\ UNCHANGED <<clock, hMounted, hKey, infVars, delayVars, fetchedAt, debVars, fanVars, authVars, pollVars>>

\* usePollingApi: the refetchInterval timer of a mounted observer fires.
IntervalTick(h) ==
  /\ hMounted[h]
  /\ refetchInterval(h) > 0
  /\ LET w == queryFetch(World, hKey[h]) IN
       /\ w.seq <= MaxFetches
       /\ Commit(w)
  /\ lastOp' = Op("IntervalTick", hKey[h])
  /\ UNCHANGED <<clock, hookVars, infVars, delayVars, fetchedAt, debVars, fanVars, authVars, pollVars>>

\* ----------------------------------------------------- usePollingApi timer
PollHook == "h2"                    \* the component that calls usePollingApi

clearIntervalNoop(timer) == timer

\* clearInterval(refetchIntervalId)
clearInterval(timer) == 0

\* setInterval(callback, ms): the callback runs ms from now, and again every
\* ms after it has run.
setInterval(ms) == clock + ms

\* The observer clears its interval timer and, unless enabled is false or no
\* refetchInterval is set, sets it anew.
updateRefetchInterval(en) ==
  IF en /\ refetchInterval(PollHook) > 0
  THEN setInterval(refetchInterval(PollHook))
  ELSE clearInterval(pollDue)

\* An update of the query (failure or result of a call) reaches the observer
\* of the polling component, which updates its timers.
onQueryUpdate(k) ==
  IF pollDue # 0 /\ hMounted[PollHook] /\ hKey[PollHook] = k
  THEN updateRefetchInterval(enabled)
  ELSE pollDue

\* enabled: false keeps the observer from fetching by itself.
fetchIfEnabled(w, k, en) == IF en THEN fetchIfStale(w, k) ELSE w

\* A component calling usePollingApi(k, apiFunction, interval, {enabled})
\* mounts.
PollMount(k, en) ==
  /\ ~hMounted[PollHook]
  /\ LET w == fetchIfEnabled(addObserver(build(World, k), k, PollHook), k, en) IN
       /\ w.seq <= MaxFetches
       /\ Commit(w)
  /\ hMounted' = [hMounted EXCEPT ![PollHook] = TRUE]
  /\ hKey' = [hKey EXCEPT ![PollHook] = k]
  /\ hRetryCount' = [hRetryCount EXCEPT ![PollHook] = 0]
  /\ enabled' = en
  /\ pollDue' = updateRefetchInterval(en)
  /\ lastOp' = Op("PollMount", k)
  /\ UNCHANGED <<clock, infVars, delayVars, fetchedAt, debVars, fanVars, authVars>>

\* The component unmounts: the observer is destroyed and clears its timers.
PollUnmount ==
  /\ hMounted[PollHook]
  /\ Commit(removeObserver(World, hKey[PollHook], PollHook))
  /\ hMounted' = [hMounted EXCEPT ![PollHook] = FALSE]
  /\ hKey' = [hKey EXCEPT ![PollHook] = 1]
  /\ hRetryCount' = [hRetryCount EXCEPT ![PollHook] = 0]
  /\ enabled' = TRUE
  /\ pollDue' = clearInterval(pollDue)
  /\ lastOp' = Op("PollUnmount", hKey[PollHook])
  /\ UNCHANGED <<clock, infVars, delayVars, fetchedAt, debVars, fanVars, authVars>>

\* The component re-renders with another queryKey.
PollSetKey(k) ==
  /\ hMounted[PollHook]
  /\ k # hKey[PollHook]
  /\ LET w0 == build(World, k)
         w1 == removeObserver(w0, hKey[PollHook], PollHook)
         w2 == fetchIfEnabled(addObserver(w1, k, PollHook), k, enabled)
     IN  /\ w2.seq <= MaxFetches
         /\ Commit(w2)
  /\ hKey' = [hKey EXCEPT ![PollHook] = k]
  /\ pollDue' = updateRefetchInterval(enabled)
  /\ lastOp' = Op("PollSetKey", k)
  /\ UNCHANGED <<clock, hMounted, hRetryCount, enabled, infVars, delayVars,
                 fetchedAt, debVars, fanVars, authVars>>

\* The component re-renders with another value of enabled.
PollSetEnabled(en) ==
  /\ hMounted[PollHook]
  /\ en # enabled
  /\ LET w == fetchIfEnabled(World, hKey[PollHook], en) IN
       /\ w.seq <= MaxFetches
       /\ Commit(w)
  /\ enabled' = en
  /\ pollDue' = updateRefetchInterval(en)
  /\ lastOp' = Op("PollSetEnabled", hKey[PollHook])
  /\ UNCHANGED <<clock, hookVars, infVars, delayVars, fetchedAt, debVars,
                 fanVars, authVars>>

\* The interval timer fires (refetchIntervalInBackground: true, so whether
\* or not the window has the focus): the observer fetches, whatever the
\* freshness of the entry.
PollIntervalFire ==
  /\ pollDue # 0
  /\ clock >= pollDue
  /\ LET w == queryFetch(World, hKey[PollHook]) IN
       /\ w.seq <= MaxFetches
       /\ Commit(w)
  /\ pollDue' = setInterval(refetchInterval(PollHook))
  /\ lastOp' = Op("PollIntervalFire", hKey[PollHook])
  /\ UNCHANGED <<clock, hookVars, enabled, infVars, delayVars, fetchedAt,
                 debVars, fanVars, authVars>>

\* The component calls the refetch it was given.
PollRefetch ==
  /\ hMounted[PollHook]
  /\ LET w == refetch(World, hKey[PollHook]) IN
       /\ w.seq <= MaxFetches
       /\ Commit(w)
  /\ lastOp' = Op("PollRefetch", hKey[PollHook])
  /\ UNCHANGED <<clock, hookVars, pollVars, infVars, delayVars, fetchedAt,
                 debVars, fanVars, authVars>>

\* The component calls the retry it was given:
\* setRetryCount(prev => prev + 1); refetch()
PollHandleRetry ==
  /\ hMounted[PollHook]
  /\ hRetryCount[PollHook] < MaxRetryCount
  /\ hRetryCount' = [hRetryCount EXCEPT ![PollHook] = @ + 1]
  /\ LET w == refetch(World, hKey[PollHook]) IN
       /\ w.seq <= MaxFetches
       /\ Commit(w)
  /\ lastOp' = Op("PollHandleRetry", hKey[PollHook])
  /\ UNCHANGED <<clock, hMounted, hKey, pollVars, infVars, delayVars, fetchedAt,
                 debVars, fanVars, authVars>>

\* One polling interval passes.  A timer that is due runs before more time
\* passes, and a call in flight ends within the transport timeout, which is
\* shorter than the interval.
PollStep ==
  /\ clock < MaxPollClock
  /\ pollDue = 0 \/ clock < pollDue
  /\ \A r \in retryers : r.phase = "calling" => r.startedAt = clock
  /\ clock' = clock + refetchInterval(PollHook)
  /\ lastOp' = Op("PollStep", 0)
  /\ UNCHANGED <<queries, retryers, nextSeq, hookVars, pollVars, infVars,
                 delayVars, fetchedAt, debVars, fanVars, authVars>>

\* ----------------------------------------------------------- network and time
\* useInfiniteApi's onSuccess, called for the observer of the query that
\* succeeded: a page shorter than options.pageSize || 20 ends the list.
pageSizeOption == IF optPageSize # 0 THEN optPageSize ELSE defaultPageSize

infiniteOnSuccessOfLastPage(len) ==
  IF len = 0 \/ len < pageSizeOption THEN FALSE ELSE TRUE

infiniteOnSuccess(len) ==
  IF len = 0 \/ len < pageSizeOption THEN FALSE ELSE hasMore

\* The call of a retryer resolves with a body of len items.
ResponseOk(r, len) ==
  /\ r \in retryers
  /\ r.phase = "calling"
  /\ queries' = [queries EXCEPT ![r.key] = onSuccess(@, r)]
  /\ retryers' = retryers \ {r}
  /\ hasMore' = IF InfHook \in queries[r.key].observers
                THEN infiniteOnSuccess(len) ELSE hasMore
  /\ fetchedAt' = [fetchedAt EXCEPT ![r.key] = clock]
  /\ lastOp' = [RetryerOp("ResponseOk", r, "none") EXCEPT !.len = len]
  /\ UNCHANGED <<clock, nextSeq, hookVars, page, optPageSize, apiPageSize,
                 keyEpoch, delayVars, debVars, fanVars, authVars, enabled>>
  /\ pollDue' = onQueryUpdate(r.key)

\* The call of a retryer rejects with an error of class e: either the fetch
\* ends in error, or the retryer sleeps retryDelay(failureCount) and calls again.
ResponseFail(r, e) ==
  /\ r \in retryers
  /\ r.phase = "calling"
  /\ IF r.cancelled \/ ~shouldRetry(r.failureCount, e)
     THEN /\ queries' = [queries EXCEPT ![r.key] = onError(@, e)]
          /\ retryers' = retryers \ {r}
          /\ lastOp' = RetryerOp("Rejected", r, e)
     ELSE /\ queries' = queries
          /\ retryers' = (retryers \ {r}) \cup
               {[r EXCEPT !.failureCount = @ + 1, !.phase = "sleeping",
                          !.lastError = e, !.delay = retryDelay(r.failureCount)]}
          /\ lastOp' = RetryerOp("Failed", r, e)
  /\ UNCHANGED <<clock, nextSeq, hookVars, infVars, delayVars, fetchedAt, debVars, fanVars, authVars, enabled>>
  /\ pollDue' = onQueryUpdate(r.key)

\* The retry delay of a sleeping retryer has elapsed.
RetryWake(r) ==
  /\ r \in retryers
  /\ r.phase = "sleeping"
  /\ IF r.cancelled
     THEN /\ queries' = [queries EXCEPT ![r.key] = onError(@, r.lastError)]
          /\ retryers' = retryers \ {r}
          /\ lastOp' = RetryerOp("Rejected", r, r.lastError)
     ELSE /\ retryers' = (retryers \ {r}) \cup
               {[r EXCEPT !.phase = "calling", !.calls = @ + 1,
                          !.startedAt = clock, !.delay = 0]}
          /\ queries' = queries
          /\ lastOp' = RetryerOp("RetryWake", r, "none")
  /\ UNCHANGED <<clock, nextSeq, hookVars, infVars, delayVars, fetchedAt, debVars, fanVars, authVars, pollVars>>

\* Time passes.  A call in flight ends within the transport timeout, which is
\* shorter than a clock step: the clock steps at most once during a call.
Tick ==
  /\ clock < MaxClock
  /\ \A r \in retryers : r.phase = "calling" => r.startedAt = clock
  /\ clock' = clock + TickMs
  /\ lastOp' = Op("Tick", 0)
  /\ UNCHANGED <<queries, retryers, nextSeq, hookVars, infVars, delayVars, fetchedAt, debVars, fanVars, authVars, pollVars>>

\* The garbage-collection timer of an entry fires.
GcFire(k) ==
  /\ queries[k].exists
  /\ queries[k].gcAt # 0
  /\ clock >= queries[k].gcAt
  /\ queries[k].observers = {}
  /\ queries' = [queries EXCEPT ![k] =
                   IF @.isFetching THEN scheduleGc(@, clock) ELSE DefaultState]
  /\ lastOp' = Op("GcFire", k)
  /\ UNCHANGED <<clock, retryers, nextSeq, hookVars, infVars, delayVars, fetchedAt, debVars, fanVars, authVars, pollVars>>

\* ----------------------------------------------------- useInfiniteApi actions
\* The key useInfiniteApi passes to useApi is [queryKey, page]: the page
\* number names the entry.
\* The component re-renders with another page: its observer moves to the
\* query of that page and fetches it if it is empty or stale.
setPage(w, from, to) ==
  IF to = from THEN w
  ELSE fetchIfStale(addObserver(removeObserver(build(w, to), from, InfHook),
                                to, InfHook), to)

nextPageWraps(prev) == IF prev >= 2 THEN 1 ELSE prev + 1

\* setPage(prev => prev + 1)
nextPage(prev) == prev + 1

\* if (!isLoading && hasMore) of loadMore, on the values of the last render.
canLoadMore == ~IsLoading(page) /\ hasMore

\* loadMore() called once in an event.
loadMore ==
  /\ LET to == IF canLoadMore THEN nextPage(page) ELSE page
         w == setPage(World, page, to)
     IN  /\ to <= MaxPage
         /\ w.seq <= MaxFetches
         /\ page' = to
         /\ keyEpoch' = IF to # page THEN nextSeq ELSE keyEpoch
         /\ Commit(w)
  /\ lastOp' = Op("loadMore", page)
  /\ UNCHANGED <<clock, hookVars, hasMore, optPageSize, apiPageSize, delayVars, fetchedAt, debVars, fanVars, authVars, pollVars>>

\* loadMore() called twice in one event: both calls see the values of the
\* same render, and the two updater functions are applied in turn.
loadMoreTwice ==
  /\ LET to == IF canLoadMore THEN nextPage(nextPage(page)) ELSE page
         w == setPage(World, page, to)
     IN  /\ to <= MaxPage
         /\ w.seq <= MaxFetches
         /\ page' = to
         /\ keyEpoch' = IF to # page THEN nextSeq ELSE keyEpoch
         /\ Commit(w)
  /\ lastOp' = Op("loadMoreTwice", page)
  /\ UNCHANGED <<clock, hookVars, hasMore, optPageSize, apiPageSize, delayVars, fetchedAt, debVars, fanVars, authVars, pollVars>>

\* reset: setPage(1); setHasMore(true)
reset ==
  /\ LET w == setPage(World, page, 1) IN
       /\ w.seq <= MaxFetches
       /\ Commit(w)
  /\ page' = 1
  /\ hasMore' = TRUE
  /\ keyEpoch' = nextSeq
  /\ lastOp' = Op("reset", page)
  /\ UNCHANGED <<clock, hookVars, optPageSize, apiPageSize, delayVars, fetchedAt, debVars, fanVars, authVars, pollVars>>

\* refetch() of the current page, as returned by useInfiniteApi.
InfRefetch ==
  /\ LET w == refetch(World, page) IN
       /\ w.seq <= MaxFetches
       /\ Commit(w)
  /\ lastOp' = Op("InfRefetch", page)
  /\ UNCHANGED <<clock, hookVars, infVars, delayVars, fetchedAt, debVars, fanVars, authVars, pollVars>>

\* --------------------------------------------------- useDebouncedApi actions
NoTimer == [key |-> 0, due |-> -1]

setTimeoutImmediate(timers, k, d) == [key |-> k, due |-> dbNow]

\* setTimeout(() => setDebouncedQueryKey(queryKey), delay): the new timer.
setTimeout(timers, k, d) == [key |-> k, due |-> dbNow + d]

clearTimeoutNoop(timers, t) == timers

\* clearTimeout(timer)
clearTimeout(timers, t) == timers \ {t}

effectDepsDelayOnly(k, d) == <<d>>

\* [queryKey, delay], the dependencies of the effect.
effectDeps(k, d) == <<k, d>>

\* The effect runs again: the cleanup of its last run, then a new timer.
rearm(k, d) ==
  LET t == setTimeout(dbTimers, k, d) IN
    /\ dbTimer' = t
    /\ dbTimers' = clearTimeout(dbTimers, dbTimer) \cup {t}

\* useApi(debouncedQueryKey, ...) re-rendered with another key: the observer
\* moves to the query of that key and fetches it if it is empty or stale.
setDebouncedQueryKey(w, from, to) ==
  IF to = from THEN w
  ELSE fetchIfStale(addObserver(removeObserver(build(w, to), from, DebHook),
                                to, DebHook), to)

\* First render and mount: useState(queryKey), the effect arms the timer,
\* and useApi observes the key.
DebMount(k, d) ==
  /\ ~dbMounted
  /\ LET w == fetchIfStale(addObserver(build(World, k), k, DebHook), k) IN
       /\ w.seq <= MaxFetches
       /\ Commit(w)
  /\ dbMounted' = TRUE
  /\ dbQueryKey' = k
  /\ dbDelay' = d
  /\ debouncedQueryKey' = k
  /\ LET t == setTimeout(dbTimers, k, d) IN
       /\ dbTimer' = t
       /\ dbTimers' = dbTimers \cup {t}
  /\ rawChangedAt' = dbNow
  /\ dbChanges' = 0
  /\ dbBurst' = 0
  /\ lastOp' = Op("DebMount", k)
  /\ UNCHANGED <<clock, dbNow, hookVars, infVars, delayVars, fetchedAt, fanVars, authVars, pollVars>>

\* The component re-renders with another queryKey.
DebSetQueryKey(k) ==
  /\ dbMounted
  /\ k # dbQueryKey
  /\ dbBurst < MaxBurst
  /\ dbQueryKey' = k
  /\ IF effectDeps(k, dbDelay) # effectDeps(dbQueryKey, dbDelay)
     THEN rearm(k, dbDelay)
     ELSE UNCHANGED <<dbTimer, dbTimers>>
  /\ rawChangedAt' = dbNow
  /\ dbChanges' = 0
  /\ dbBurst' = dbBurst + 1
  /\ lastOp' = [Op("DebSetQueryKey", k) EXCEPT !.len = Cardinality(dbTimers)]
  /\ UNCHANGED <<cacheVars, dbNow, dbMounted, dbDelay, debouncedQueryKey,
                 hookVars, infVars, delayVars, fetchedAt, fanVars, authVars, pollVars>>

\* The component re-renders with another delay.
DebSetDelay(d) ==
  /\ dbMounted
  /\ d # dbDelay
  /\ dbDelay' = d
  /\ IF effectDeps(dbQueryKey, d) # effectDeps(dbQueryKey, dbDelay)
     THEN rearm(dbQueryKey, d)
     ELSE UNCHANGED <<dbTimer, dbTimers>>
  /\ lastOp' = [Op("DebSetDelay", dbQueryKey) EXCEPT !.len = Cardinality(dbTimers)]
  /\ UNCHANGED <<cacheVars, dbNow, dbMounted, dbQueryKey, debouncedQueryKey,
                 rawChangedAt, dbChanges, dbBurst,
                 hookVars, infVars, delayVars, fetchedAt, fanVars, authVars, pollVars>>

\* A pending timer is due and its callback runs:
\* setDebouncedQueryKey(queryKey), with the queryKey of the render that
\* armed it.  On an unmounted component the state update does nothing.
TimerFire(t) ==
  /\ t \in dbTimers
  /\ dbNow >= t.due
  /\ dbTimers' = dbTimers \ {t}
  /\ IF dbMounted
     THEN /\ LET w == setDebouncedQueryKey(World, debouncedQueryKey, t.key) IN
               /\ w.seq <= MaxFetches
               /\ Commit(w)
          /\ debouncedQueryKey' = t.key
          /\ dbChanges' = IF t.key # debouncedQueryKey
                          THEN dbChanges + 1 ELSE dbChanges
          /\ dbBurst' = 0
     ELSE UNCHANGED <<queries, retryers, nextSeq, debouncedQueryKey,
                      dbChanges, dbBurst>>
  /\ lastOp' = [Op("TimerFire", t.key) EXCEPT !.len = dbBurst]
  /\ UNCHANGED <<clock, dbNow, dbMounted, dbQueryKey, dbDelay, dbTimer,
                 rawChangedAt, hookVars, infVars, delayVars, fetchedAt, fanVars, authVars, pollVars>>

\* Unmount: the cleanup of the effect clears its timer, the observer leaves.
DebUnmount ==
  /\ dbMounted
  /\ Commit(removeObserver(World, debouncedQueryKey, DebHook))
  /\ dbMounted' = FALSE
  /\ dbTimers' = clearTimeout(dbTimers, dbTimer)
  /\ dbTimer' = NoTimer
  /\ lastOp' = [Op("DebUnmount", debouncedQueryKey) EXCEPT !.len = Cardinality(dbTimers)]
  /\ UNCHANGED <<clock, dbNow, dbQueryKey, dbDelay, debouncedQueryKey,
                 rawChangedAt, dbChanges, dbBurst,
                 hookVars, infVars, delayVars, fetchedAt, fanVars, authVars, pollVars>>

\* The timer clock advances.
DebTick ==
  /\ dbNow < MaxNow
  /\ dbNow' = dbNow + StepMs
  /\ lastOp' = Op("DebTick", 0)
  /\ UNCHANGED <<cacheVars, dbMounted, dbQueryKey, dbDelay, debouncedQueryKey,
                 dbTimer, dbTimers, rawChangedAt, dbChanges, dbBurst,
                 hookVars, infVars, delayVars, fetchedAt, fanVars, authVars, pollVars>>

\* ------------------------------------------- SegmentExplorer: the fan-out
\* The queryFn of useQuery(['segmentInsights', segments], ...).
null == [segment_id |-> 0]

\* What analyticsApi.getSegmentInsights(segment_id) resolves with.
getSegmentInsights(segment_id) == [segment_id |-> segment_id]

Pending == [status |-> "pending", value |-> null]

\* return { ...segment, insights }
resolved(segment, insights) ==
  [status |-> "fulfilled",
   value |-> [segment_id |-> segment.segment_id, insights |-> insights]]

catchRethrows(segment, error) == [status |-> "rejected", value |-> null]

\* catch (error) { console.error(...); return { ...segment, insights: null }; }
catch(segment, error) == resolved(segment, null)

PromiseAllInSettleOrder(promises, order) ==
  IF \E i \in DOMAIN promises : promises[i].status = "rejected"
  THEN [status |-> "rejected", value |-> <<>>]
  ELSE IF \A i \in DOMAIN promises : promises[i].status = "fulfilled"
  THEN [status |-> "fulfilled",
        value |-> [j \in DOMAIN promises |-> promises[order[j]].value]]
  ELSE [status |-> "pending", value |-> <<>>]

\* Promise.all: rejected as soon as one promise is rejected, fulfilled with
\* the values in the order of the promises once all are fulfilled.
PromiseAll(promises, order) ==
  IF \E i \in DOMAIN promises : promises[i].status = "rejected"
  THEN [status |-> "rejected", value |-> <<>>]
  ELSE IF \A i \in DOMAIN promises : promises[i].status = "fulfilled"
  THEN [status |-> "fulfilled",
        value |-> [i \in DOMAIN promises |-> promises[i].value]]
  ELSE [status |-> "pending", value |-> <<>>]

\* A promise of the map settles; Promise.all reacts unless already settled.
settle(i, p) ==
  /\ insightsPromises' = [insightsPromises EXCEPT ![i] = p]
  /\ settleOrder' = Append(settleOrder, i)
  /\ issued' = issued \ {i}
  /\ allPromise' = IF allPromise.status = "pending"
                   THEN PromiseAll(insightsPromises', settleOrder')
                   ELSE allPromise

\* The sequences of distinct segments of length at most MaxSegments.
SegmentLists ==
  {ss \in UNION {[1..n -> SegmentIds] : n \in 0..MaxSegments} :
     \A i, j \in DOMAIN ss : i # j => ss[i] # ss[j]}

\* The queryFn runs on the list of segments of its query key, and again on
\* that list when the query is refetched (refetchInterval): [] when the list
\* is empty, otherwise segments.map issues every call before the function
\* returns Promise.all of the promises.
FanOutStart(ss) ==
  /\ \/ allPromise.status = "idle"
     \/ /\ allPromise.status = "fulfilled"
        /\ ss = [i \in DOMAIN segments |-> segments[i].segment_id]
  /\ issued = {}
  /\ segments' = [i \in DOMAIN ss |-> [segment_id |-> ss[i]]]
  /\ insightsPromises' = [i \in DOMAIN ss |-> Pending]
  /\ issued' = DOMAIN ss
  /\ settleOrder' = <<>>
  /\ caught' = [i \in DOMAIN ss |-> "none"]
  /\ allPromise' = IF Len(ss) = 0
                   THEN [status |-> "fulfilled", value |-> <<>>]
                   ELSE PromiseAll(insightsPromises', settleOrder')
  /\ lastOp' = Op("FanOutStart", Len(ss))
  /\ UNCHANGED <<cacheVars, hookVars, infVars, delayVars, fetchedAt, debVars, authVars, pollVars>>

\* The call for segment i resolves.
SegmentOk(i) ==
  /\ i \in issued
  /\ settle(i, resolved(segments[i], getSegmentInsights(segments[i].segment_id)))
  /\ lastOp' = Op("SegmentOk", i)
  /\ UNCHANGED <<segments, caught>>
  /\ UNCHANGED <<cacheVars, hookVars, infVars, delayVars, fetchedAt, debVars, authVars, pollVars>>

\* The call for segment i rejects with an error of class e.
SegmentFail(i, e) ==
  /\ i \in issued
  /\ settle(i, catch(segments[i], e))
  /\ caught' = [caught EXCEPT ![i] = e]
  /\ lastOp' = [Op("SegmentFail", i) EXCEPT !.error = e]
  /\ UNCHANGED segments
  /\ UNCHANGED <<cacheVars, hookVars, infVars, delayVars, fetchedAt, debVars, authVars, pollVars>>

\* ------------------------------------- session: AuthProvider and API clients
\* AuthProvider uses axios itself; analyticsApi, recommendationApi and userApi
\* each use an axios instance of their own with its interceptors.
\* The localStorage item the request interceptor of a client reads.
tokenKey(client) == IF client = "userApi" THEN "token" ELSE "authToken"

\* Only the instance of analyticsApi registers a response interceptor.
hasResponseInterceptor(client) == client = "analyticsApi"

\* A request in flight.  caller is the function that awaits it: for a
\* fetchUser the mount effect ("mount") or login, itself called by the user
\* ("login") or by register ("register").
Request(id, client, kind, authorization, caller) ==
  [id |-> id, client |-> client, kind |-> kind,
   authorization |-> authorization, caller |-> caller]

Response(req, status, outcome) ==
  [client |-> req.client, status |-> status, kind |-> req.kind,
   authorization |-> req.authorization, caller |-> req.caller,
   outcome |-> outcome]

responseOutcomeHandled(client, status) ==
  IF status = 200 \/ (status = 401 /\ hasResponseInterceptor(client))
  THEN "resolved" ELSE "rejected"

\* What the caller of an API client gets: axios rejects every response that
\* is not 2xx and every request without response, and the response
\* interceptor ends with return Promise.reject(error).
responseOutcome(client, status) ==
  IF status = 200 THEN "resolved" ELSE "rejected"

\* err.response?.data?.detail of a failed login or register: undefined (no
\* response, or a body without detail), a string, or a list of entries
\* with or without msg.
Undefined == [kind |-> "undefined", str |-> "", list |-> <<>>]
Str(str) == [kind |-> "string", str |-> str, list |-> <<>>]
List(list) == [kind |-> "list", str |-> "", list |-> list]
Msg(msg) == [hasMsg |-> TRUE, msg |-> msg]
NoMsg == [hasMsg |-> FALSE, msg |-> ""]

Details ==
  {Undefined, Str("Invalid credentials"), Str(""), List(<<>>),
   List(<<Msg("field required")>>), List(<<NoMsg>>),
   List(<<Msg("field required"), NoMsg>>)}

\* The details a response of the given status may carry.
DetailsOf(status) == IF status = 0 THEN {Undefined} ELSE Details

\* a || b on strings, undefined being the empty string.
Or(a, b) == IF a # "" THEN a ELSE b

\* The catch block of login and register:
\*   if (Array.isArray(detail)) setError(detail[0].msg || fallback);
\*   else setError(detail || fallback);
\* detail[0].msg throws a TypeError when the list is empty.
catchError(detail, fallback) ==
  IF detail.kind = "list"
  THEN IF Len(detail.list) = 0
       THEN [thrown |-> TRUE, message |-> ""]
       ELSE [thrown |-> FALSE, message |-> Or(detail.list[1].msg, fallback)]
  ELSE [thrown |-> FALSE, message |-> Or(detail.str, fallback)]

Result(fn, result) == [fn |-> fn, result |-> result]

\* fetchUser(token): axios.get(`${API_URL}/auth/me`, Authorization: Bearer token)
fetchUser(token, caller) ==
  Request(nRequests + 1, "axios", "me", token, caller)

\* login(email, password) is called: the POST to /auth/login is sent.
login ==
  /\ nRequests < MaxRequests
  /\ loading' = TRUE
  /\ authError' = "none"
  /\ requests' = requests \cup {Request(nRequests + 1, "axios", "login", 0, "login")}
  /\ nRequests' = nRequests + 1
  /\ lastOp' = Op("login", 0)
  /\ UNCHANGED <<localStorage, location, navigating, user, loginStored,
                 sessionExpired, lastResponse, authResult, unauthorized>>
  /\ UNCHANGED <<cacheVars, hookVars, infVars, delayVars, fetchedAt, debVars, fanVars, pollVars>>

\* register(email, password, fullName) is called: the POST to
\* /auth/register is sent.
register ==
  /\ nRequests < MaxRequests
  /\ loading' = TRUE
  /\ authError' = "none"
  /\ requests' = requests \cup
       {Request(nRequests + 1, "axios", "register", 0, "register")}
  /\ nRequests' = nRequests + 1
  /\ lastOp' = Op("register", 0)
  /\ UNCHANGED <<localStorage, location, navigating, user, loginStored,
                 sessionExpired, lastResponse, authResult, unauthorized>>
  /\ UNCHANGED <<cacheVars, hookVars, infVars, delayVars, fetchedAt, debVars, fanVars, pollVars>>

\* The POST of register is answered.  On success register returns
\* await login(email, password), which sends the POST of login; otherwise
\* its catch block sets the error and register returns false, or throws.
RegisterResponse(req, status, detail) ==
  /\ req \in requests
  /\ req.kind = "register"
  /\ IF status = 200
     THEN /\ nRequests < MaxRequests
          /\ loading' = TRUE
          /\ authError' = "none"
          /\ requests' = (requests \ {req}) \cup
               {Request(nRequests + 1, "axios", "login", 0, "register")}
          /\ nRequests' = nRequests + 1
          /\ UNCHANGED authResult
     ELSE LET c == catchError(detail, "Registration failed") IN
          /\ authError' = IF c.thrown THEN authError ELSE c.message
          /\ authResult' = Result("register", IF c.thrown THEN "throws" ELSE "false")
          /\ loading' = FALSE
          /\ requests' = requests \ {req}
          /\ UNCHANGED nRequests
  /\ lastResponse' = Response(req, status, responseOutcome(req.client, status))
  /\ lastOp' = Op("RegisterResponse", status)
  /\ UNCHANGED <<localStorage, location, navigating, user, loginStored,
                 sessionExpired, unauthorized>>
  /\ UNCHANGED <<cacheVars, hookVars, infVars, delayVars, fetchedAt, debVars, fanVars, pollVars>>

\* The POST of login is answered.  On success the access_token is stored
\* under 'token' and fetchUser(access_token) is awaited; otherwise the catch
\* block sets the error and login returns false, or throws.  A register
\* that awaits this login catches what it throws, sets its own error and
\* returns false.
LoginResponse(req, status, detail) ==
  /\ req \in requests
  /\ req.kind = "login"
  /\ IF status = 200
     THEN /\ nRequests < MaxRequests
          /\ localStorage' = [localStorage EXCEPT !["token"] = req.id]
          /\ requests' = (requests \ {req}) \cup {fetchUser(req.id, req.caller)}
          /\ nRequests' = nRequests + 1
          /\ UNCHANGED <<loading, authError, authResult>>
     ELSE LET c == catchError(detail, "Login failed") IN
          /\ authError' =
               IF ~c.thrown THEN c.message
               ELSE IF req.caller = "register"
                    THEN catchError(Undefined, "Registration failed").message
                    ELSE authError
          /\ authResult' =
               Result(req.caller,
                      IF c.thrown /\ req.caller = "login" THEN "throws" ELSE "false")
          /\ loading' = FALSE
          /\ requests' = requests \ {req}
          /\ UNCHANGED <<localStorage, nRequests>>
  /\ lastResponse' = Response(req, status, responseOutcome(req.client, status))
  /\ lastOp' = Op("LoginResponse", status)
  /\ UNCHANGED <<location, navigating, user, loginStored, sessionExpired,
                 unauthorized>>
  /\ UNCHANGED <<cacheVars, hookVars, infVars, delayVars, fetchedAt, debVars, fanVars, pollVars>>

\* The GET of fetchUser is answered: the user is set, or the item 'token' is
\* removed and the user set to null; fetchUser never throws.  When login
\* awaited it, login then returns true.
FetchUserResponse(req, status) ==
  /\ req \in requests
  /\ req.kind = "me"
  /\ requests' = requests \ {req}
  /\ IF status = 200
     THEN /\ user' = 1
          /\ UNCHANGED localStorage
     ELSE /\ localStorage' = [localStorage EXCEPT !["token"] = 0]
          /\ user' = 0
  /\ loading' = FALSE
  /\ authResult' = IF req.caller = "mount" THEN authResult
                   ELSE Result(req.caller, "true")
  /\ loginStored' = IF req.caller # "mount"
                    THEN (IF status = 200 THEN localStorage'["token"] ELSE 0)
                    ELSE (IF localStorage'["token"] = loginStored
                          THEN loginStored ELSE 0)
  /\ unauthorized' = IF req.caller # "mount" /\ status = 200
                     THEN FALSE ELSE unauthorized
  /\ lastResponse' = Response(req, status, responseOutcome(req.client, status))
  /\ lastOp' = Op("FetchUserResponse", status)
  /\ UNCHANGED <<location, navigating, authError, nRequests, sessionExpired>>
  /\ UNCHANGED <<cacheVars, hookVars, infVars, delayVars, fetchedAt, debVars, fanVars, pollVars>>

\* logout()
logout ==
  /\ localStorage' = [localStorage EXCEPT !["token"] = 0]
  /\ user' = 0
  /\ loginStored' = 0
  /\ lastOp' = Op("logout", 0)
  /\ UNCHANGED <<location, navigating, loading, authError, requests, nRequests,
                 sessionExpired, lastResponse, authResult, unauthorized>>
  /\ UNCHANGED <<cacheVars, hookVars, infVars, delayVars, fetchedAt, debVars, fanVars, pollVars>>

\* A call through one of the API clients: its request interceptor reads the
\* token and the request is sent.
ApiRequest(client) ==
  /\ nRequests < MaxRequests
  /\ requests' = requests \cup
       {Request(nRequests + 1, client, "api",
                localStorage[tokenKey(client)], "page")}
  /\ nRequests' = nRequests + 1
  /\ lastOp' = Op("ApiRequest", 0)
  /\ UNCHANGED <<localStorage, location, navigating, user, loading, authError,
                 loginStored, sessionExpired, lastResponse, authResult,
                 unauthorized>>
  /\ UNCHANGED <<cacheVars, hookVars, infVars, delayVars, fetchedAt, debVars, fanVars, pollVars>>

\* The response of an API call arrives, or the call ends without response
\* (status 0), and passes the response interceptor of its client, if it has
\* one: on a 401 the item 'authToken' is removed and the document is sent to
\* /login.
ApiResponse(req, status) ==
  /\ req \in requests
  /\ req.kind = "api"
  /\ requests' = requests \ {req}
  /\ IF status = 401 /\ hasResponseInterceptor(req.client)
     THEN /\ localStorage' = [localStorage EXCEPT !["authToken"] = 0]
          /\ location' = "/login"
          /\ navigating' = TRUE
          /\ sessionExpired' = sessionExpired + 1
     ELSE UNCHANGED <<localStorage, location, navigating, sessionExpired>>
  /\ unauthorized' = (unauthorized \/ status = 401)
  /\ lastResponse' = Response(req, status, responseOutcome(req.client, status))
  /\ lastOp' = Op("ApiResponse", status)
  /\ UNCHANGED <<user, loading, authError, nRequests, loginStored, authResult>>
  /\ UNCHANGED <<cacheVars, hookVars, infVars, delayVars, fetchedAt, debVars, fanVars, pollVars>>

\* The mount effect of AuthProvider: fetchUser(token) when localStorage holds
\* an item 'token', setLoading(false) otherwise.
mountEffect(pending) ==
  IF localStorage["token"] # 0
  THEN /\ nRequests < MaxRequests
       /\ requests' = pending \cup {fetchUser(localStorage["token"], "mount")}
       /\ nRequests' = nRequests + 1
       /\ loading' = TRUE
  ELSE /\ requests' = pending
       /\ loading' = FALSE
       /\ UNCHANGED nRequests

\* The document requested by location.href = '/login' loads: the state of
\* the application starts anew and the mount effect of AuthProvider runs.
PageLoad ==
  /\ navigating
  /\ navigating' = FALSE
  /\ user' = 0
  /\ authError' = "none"
  /\ mountEffect({})
  /\ lastOp' = Op("PageLoad", 0)
  /\ UNCHANGED <<localStorage, location, loginStored, sessionExpired,
                 lastResponse, authResult, unauthorized>>
  /\ UNCHANGED <<cacheVars, hookVars, infVars, delayVars, fetchedAt, debVars, fanVars, pollVars>>

\* ------------------------------------------------- the retry policy alone
\* retryDelay applied to a pair of attempt indexes.
ApplyRetryDelay ==
  /\ dDelayN = -1
  /\ dDelayN' = retryDelay(dN)
  /\ dDelayM' = retryDelay(dM)
  /\ lastOp' = Op("ApplyRetryDelay", 0)
  /\ UNCHANGED <<dN, dM, cacheVars, hookVars, infVars, fetchedAt, debVars, fanVars, authVars, pollVars>>

\* ------------------------------------------------------------ specifications
InitCache ==
  /\ clock = Epoch
  /\ queries = [k \in Keys |-> DefaultState]
  /\ retryers = {}
  /\ nextSeq = 0
  /\ lastOp = Op("Init", 0)
  /\ fetchedAt = [k \in Keys |-> 0]

InitHooks ==
  /\ hMounted = [h \in ApiHooks |-> FALSE]
  /\ hKey = [h \in ApiHooks |-> 1]
  /\ hRetryCount = [h \in ApiHooks |-> 0]

InitInfinite ==
  /\ page = 1
  /\ hasMore = TRUE
  /\ optPageSize = 0
  /\ apiPageSize = defaultPageSize
  /\ keyEpoch = 0

InitDebounce ==
  /\ dbMounted = FALSE
  /\ dbQueryKey = 1
  /\ dbDelay = defaultDelay
  /\ debouncedQueryKey = 1
  /\ dbTimer = NoTimer
  /\ dbTimers = {}
  /\ dbNow = 0
  /\ rawChangedAt = 0
  /\ dbChanges = 0
  /\ dbBurst = 0

InitFanOut ==
  /\ segments = <<>>
  /\ insightsPromises = <<>>
  /\ allPromise = [status |-> "idle", value |-> <<>>]
  /\ issued = {}
  /\ settleOrder = <<>>
  /\ caught = <<>>

\* The application has loaded with an empty localStorage: the mount effect
\* of AuthProvider found no token and set loading to false.
InitPolling ==
  /\ enabled = TRUE
  /\ pollDue = 0

InitAuth ==
  /\ localStorage = [k \in StorageKeys |-> 0]
  /\ location = "/"
  /\ navigating = FALSE
  /\ user = 0
  /\ loading = FALSE
  /\ authError = "none"
  /\ requests = {}
  /\ nRequests = 0
  /\ loginStored = 0
  /\ sessionExpired = 0
  /\ lastResponse = Response(Request(0, "none", "none", 0, "none"), 0, "none")
  /\ authResult = Result("none", "none")
  /\ unauthorized = FALSE

InitDelay ==
  /\ dN = 0
  /\ dM = 0
  /\ dDelayN = -1
  /\ dDelayM = -1

\* Spec: two components, one calling useApi and one calling usePollingApi,
\* observe the same key; time passes and entries are collected.
Init == InitCache /\ InitHooks /\ InitInfinite /\ InitDelay /\ InitDebounce /\ InitFanOut /\ InitAuth /\ InitPolling

Next ==
  \/ \E h \in ApiHooks : Mount(h, 1)
  \/ \E h \in ApiHooks : Unmount(h)
  \/ \E h \in ApiHooks : Refetch(h)
  \/ \E h \in ApiHooks : handleRetry(h)
  \/ \E h \in ApiHooks : IntervalTick(h)
  \/ \E r \in retryers : ResponseOk(r, 0)
  \/ \E r \in retryers, e \in ErrorClasses : ResponseFail(r, e)
  \/ \E r \in retryers : RetryWake(r)
  \/ Tick
  \/ \E k \in Keys : GcFire(k)

Spec == Init /\ [][Next]_vars

\* SpecKeys: one component calling useApi whose queryKey changes between two
\* keys while fetches are in flight.
NextKeys ==
  \/ \E k \in QueryKeys : Mount("h1", k)
  \/ Unmount("h1")
  \/ \E k \in QueryKeys : SetKey("h1", k)
  \/ Refetch("h1")
  \/ \E r \in retryers : ResponseOk(r, 0)
  \/ \E r \in retryers, e \in ErrorClasses : ResponseFail(r, e)
  \/ \E r \in retryers : RetryWake(r)

SpecKeys == Init /\ [][NextKeys]_vars

\* SpecStale: one component calling useApi on two keys while time passes and
\* entries are collected; calls succeed or fail with a server error.
NextStale ==
  \/ \E k \in QueryKeys : Mount("h1", k)
  \/ Unmount("h1")
  \/ \E k \in QueryKeys : SetKey("h1", k)
  \/ \E r \in retryers : ResponseOk(r, 0)
  \/ \E r \in retryers : ResponseFail(r, "http5xx")
  \/ \E r \in retryers : RetryWake(r)
  \/ Tick
  \/ \E k \in Keys : GcFire(k)

SpecStale == Init /\ [][NextStale]_vars

\* SpecInfinite: one mounted component calling useInfiniteApi.  apiFunction
\* requests apiPageSize items per page; the caller may or may not pass
\* options.pageSize.  Init is the state after the first render and mount:
\* page 1 is being fetched.  The behaviours stay within one stale-time: a
\* page that was fetched is fresh when it is visited again.
PageSizes == {10, defaultPageSize}
PageLens == {0, 7, 10, defaultPageSize}

InitInfiniteMounted ==
  /\ clock = Epoch
  /\ queries = [k \in Keys |->
       IF k = 1
       THEN [DefaultState EXCEPT !.exists = TRUE, !.status = "loading",
                                 !.isFetching = TRUE, !.observers = {InfHook}]
       ELSE DefaultState]
  /\ retryers = {[NoRetryer EXCEPT !.key = 1, !.seq = 1, !.phase = "calling",
                                   !.calls = 1, !.startedAt = Epoch]}
  /\ nextSeq = 1
  /\ lastOp = Op("Init", 0)
  /\ fetchedAt = [k \in Keys |-> 0]
  /\ InitHooks /\ InitDelay /\ InitDebounce /\ InitFanOut /\ InitAuth /\ InitPolling
  /\ page = 1
  /\ hasMore = TRUE
  /\ optPageSize \in {0, 10}
  /\ apiPageSize \in PageSizes
  /\ keyEpoch = 0

NextInfinite ==
  \/ loadMore
  \/ loadMoreTwice
  \/ reset
  \/ InfRefetch
  \/ \E r \in retryers, len \in PageLens : len <= apiPageSize /\ ResponseOk(r, len)
  \/ \E r \in retryers : ResponseFail(r, "http5xx")
  \/ \E r \in retryers : RetryWake(r)

SpecInfinite == InitInfiniteMounted /\ [][NextInfinite]_vars

\* SpecDelay: the retry policy applied to every pair of attempt indexes.
InitRetryDelay ==
  /\ InitCache /\ InitHooks /\ InitInfinite /\ InitDebounce /\ InitFanOut /\ InitAuth /\ InitPolling
  /\ dN \in 0..MaxAttemptIndex
  /\ dM \in 0..MaxAttemptIndex
  /\ dDelayN = -1
  /\ dDelayM = -1

SpecDelay == InitRetryDelay /\ [][ApplyRetryDelay]_vars

\* SpecDebounce: one component calling useDebouncedApi whose queryKey and
\* delay arguments change while the timer clock advances.  The behaviours
\* stay within one stale-time.
NextDebounce ==
  \/ \E k \in QueryKeys, d \in Delays : DebMount(k, d)
  \/ \E k \in QueryKeys : DebSetQueryKey(k)
  \/ \E d \in Delays : DebSetDelay(d)
  \/ \E t \in dbTimers : TimerFire(t)
  \/ DebUnmount
  \/ DebTick
  \/ \E r \in retryers : ResponseOk(r, 0)

SpecDebounce == Init /\ [][NextDebounce]_vars

\* SpecFanOut: the queryFn of SegmentExplorer runs on a list of segments, and
\* again after it has resolved; the calls resolve or reject in any order.
NextFanOut ==
  \/ \E ss \in SegmentLists : FanOutStart(ss)
  \/ \E i \in issued : SegmentOk(i)
  \/ \E i \in issued, e \in ErrorClasses : SegmentFail(i, e)

SpecFanOut == Init /\ [][NextFanOut]_vars

\* SpecPolling: one component calling usePollingApi with the default
\* interval and an enabled option, on two keys, while the intervals pass; every
\* call succeeds.
NextPolling ==
  \/ \E k \in QueryKeys, en \in BOOLEAN : PollMount(k, en)
  \/ PollUnmount
  \/ \E k \in QueryKeys : PollSetKey(k)
  \/ \E en \in BOOLEAN : PollSetEnabled(en)
  \/ PollIntervalFire
  \/ PollRefetch
  \/ PollHandleRetry
  \/ PollStep
  \/ \E r \in retryers : ResponseOk(r, 0)

SpecPolling == Init /\ [][NextPolling]_vars

\* SpecAuth: a session.  The user logs in and out, the pages call the API
\* clients, and the server answers every request with any status.
NextAuth ==
  \/ login
  \/ register
  \/ \E req \in requests, status \in Statuses :
       \E detail \in DetailsOf(status) : RegisterResponse(req, status, detail)
  \/ \E req \in requests, status \in Statuses :
       \E detail \in DetailsOf(status) : LoginResponse(req, status, detail)
  \/ \E req \in requests, status \in Statuses : FetchUserResponse(req, status)
  \/ logout
  \/ \E client \in ApiClients : ApiRequest(client)
  \/ \E req \in requests, status \in Statuses : ApiResponse(req, status)
  \/ PageLoad

\* The application has loaded and the mount effect of AuthProvider has run,
\* on an empty localStorage or on one that holds the token of an earlier
\* visit.
InitSession ==
  /\ InitCache /\ InitHooks /\ InitInfinite /\ InitDelay /\ InitDebounce
  /\ InitFanOut /\ InitPolling
  /\ localStorage \in {[k \in StorageKeys |-> 0],
                       [k \in StorageKeys |-> IF k = "token" THEN StoredToken ELSE 0]}
  /\ location = "/"
  /\ navigating = FALSE
  /\ user = 0
  /\ authError = "none"
  /\ requests = IF localStorage["token"] # 0
                THEN {Request(1, "axios", "me", localStorage["token"], "mount")}
                ELSE {}
  /\ nRequests = Cardinality(requests)
  /\ loading = (requests # {})
  /\ loginStored = 0
  /\ sessionExpired = 0
  /\ lastResponse = Response(Request(0, "none", "none", 0, "none"), 0, "none")
  /\ authResult = Result("none", "none")
  /\ unauthorized = FALSE

SpecAuth == InitSession /\ [][NextAuth]_vars

\* ================================================================= properties
Triggers == {"Mount", "SetKey", "Refetch", "handleRetry", "IntervalTick"}

\* C1: for every key, at most one network call is in flight at any time, and
\* at most one logical fetch runs: a trigger that arrives while a fetch is in
\* flight attaches to it and starts no second call.
C1_OneCallInFlightPerKey ==
  \A k \in Keys :
    /\ Cardinality(Calling(k)) <= 1
    /\ Cardinality({r \in retryers : r.key = k}) <= 1

\* A trigger has just arrived while a fetch that already retried once was in
\* flight, and that fetch is still the only one.
C1_Witness ==
  /\ lastOp.op \in Triggers
  /\ \E r \in retryers : r.key = lastOp.key /\ r.calls >= 2 /\ r.phase = "calling"
  /\ nextSeq = 1

\* C2: last-trigger-wins.  The data of an entry never goes back to the result
\* of an earlier-triggered fetch, and the completion of a fetch for another
\* key than the one the component dbNow passes leaves the data it is shown
\* unchanged.
C2_LastTriggerWins ==
  [][ /\ \A k \in Keys : queries'[k].data.seq >= queries[k].data.seq
      /\ (lastOp'.op = "ResponseOk" /\ hMounted["h1"] /\ lastOp'.key # hKey["h1"])
           => Data(hKey["h1"])' = Data(hKey["h1"]) ]_vars

\* Fetch #1 (for the former key) has just completed after fetch #2 (for the
\* current key) did; the component is shown the result of fetch #2.
C2_Witness ==
  /\ lastOp.op = "ResponseOk"
  /\ hMounted["h1"]
  /\ lastOp.key # hKey["h1"]
  /\ Data(hKey["h1"]).seq > lastOp.r.seq
  /\ queries[lastOp.key].data.seq = lastOp.r.seq

\* C3: an attempt that failed with an HTTP 4xx response is never retried.
C3_ClientErrorNeverRetried ==
  /\ \A r \in retryers : r.lastError # "http4xx"
  /\ (lastOp.op = "Failed" => lastOp.error # "http4xx")

\* C4: with retry: 3 a logical fetch makes at most 4 network calls; success
\* after three failed attempts is seen as 4 calls and status success; when
\* all 4 attempts fail the fetch ends in status error and nothing is left
\* running for the key.
C4_AtMostFourCalls ==
  /\ \A r \in retryers : r.calls <= 4
  /\ lastOp.r.calls <= 4
  /\ (lastOp.op = "ResponseOk" /\ lastOp.r.failureCount = 3)
       => /\ lastOp.r.calls = 4
          /\ queries[lastOp.key].status = "success"
  /\ (lastOp.op = "Rejected" /\ ~lastOp.r.cancelled)
       => /\ lastOp.r.calls = 4
          /\ lastOp.r.failureCount = 3
          /\ queries[lastOp.key].status = "error"
          /\ {r \in retryers : r.key = lastOp.key} = {}

\* Attempts 0, 1 and 2 failed (the last with a server error) and attempt 3
\* has just succeeded.
C4_Witness ==
  /\ lastOp.op = "ResponseOk"
  /\ lastOp.r.failureCount = 3
  /\ lastOp.r.lastError = "http5xx"
  /\ lastOp.r.calls = 4
  /\ queries[lastOp.key].status = "success"

\* C5: the retry delay of attempt n is min(1000 * 2^n, 30000): 1000, 2000,
\* 4000 for n = 0, 1, 2, non-decreasing in n and never above 30000.
C5_RetryDelay ==
  dDelayN # -1 =>
    /\ dDelayN = (IF 1000 * 2^dN <= 30000 THEN 1000 * 2^dN ELSE 30000)
    /\ (dN = 0 => dDelayN = 1000)
    /\ (dN = 1 => dDelayN = 2000)
    /\ (dN = 2 => dDelayN = 4000)
    /\ dDelayN <= 30000
    /\ (dN <= dM => dDelayN <= dDelayM)

\* The delay of attempt 2 and a capped delay have been computed.
C5_Witness ==
  /\ dN = 2 /\ dDelayN = 4000
  /\ dM >= 5 /\ dDelayM = 30000

\* C6: a mount or key change that observes a key less than staleTime after
\* its last successful fetch starts no network call and shows the cached data.
C6_FreshIsServedFromCache ==
  [][ LET k == lastOp'.key IN
      (/\ lastOp'.op \in {"Mount", "SetKey"}
       /\ fetchedAt[k] # 0
       /\ clock < fetchedAt[k] + staleTime)
      => /\ nextSeq' = nextSeq
         /\ \A r \in retryers' : \E r0 \in retryers : r0.seq = r.seq /\ r0.calls = r.calls
         /\ queries[k].data.seq # 0
         /\ queries'[k].data = queries[k].data ]_vars

\* A component has just mounted on (or moved to) a key fetched in the same
\* stale-time window, once time had already passed, and is shown its data.
C6_Witness ==
  /\ lastOp.op \in {"Mount", "SetKey"}
  /\ fetchedAt[lastOp.key] > Epoch
  /\ clock < fetchedAt[lastOp.key] + staleTime
  /\ Data(lastOp.key).seq # 0
  /\ retryers = {}

\* C7: stale-while-error.  When a fetch ends in error the entry stays in the
\* cache with the data it had, records the error and is in status error.
C7_StaleWhileError ==
  [][ LET k == lastOp'.key IN
      lastOp'.op = "Rejected"
      => /\ queries'[k].exists
         /\ queries'[k].data = queries[k].data
         /\ queries'[k].dataUpdatedAt = queries[k].dataUpdatedAt
         /\ queries'[k].error = lastOp'.error
         /\ queries'[k].status = "error" ]_vars

\* A refetch of a key that holds data has just exhausted its retries: the
\* component sees the last good data together with isError.
C7_Witness ==
  /\ lastOp.op = "Rejected"
  /\ lastOp.r.calls = 4
  /\ ~lastOp.r.cancelled
  /\ hMounted["h1"]
  /\ Data(hKey["h1"]).seq # 0
  /\ IsError(hKey["h1"])

\* C8: hasMore becomes false exactly when a page fetched by the component
\* returns zero items or fewer items than the page size the fetch actually
\* used, and in no other case.
C8_HasMoreFollowsActualPageSize ==
  [][ LET fetched == /\ lastOp'.op = "ResponseOk"
                     /\ InfHook \in queries[lastOp'.key].observers
          short == lastOp'.len = 0 \/ lastOp'.len < apiPageSize
      IN  /\ (fetched /\ short) => ~hasMore'
          /\ (hasMore /\ ~hasMore') => (fetched /\ short) ]_vars

\* C9: loadMore() changes nothing while a fetch for the current page is in
\* flight or hasMore is false; otherwise page goes up by exactly one and the
\* entry of the new page is being fetched (or is served fresh from the cache).
C9_LoadMoreNoOpWhileFetching ==
  [][ lastOp'.op = "loadMore" =>
        IF IsFetching(page) \/ ~hasMore
        THEN page' = page /\ nextSeq' = nextSeq
        ELSE /\ page' = page + 1
             /\ (queries'[page'].isFetching \/ ~isStale(queries'[page'], clock')) ]_vars

\* C10: page starts at 1, is always at least 1 and never decreases except by
\* reset().
C10_PageOnlyGrows ==
  /\ page = 1
  /\ [][ /\ page' >= 1
         /\ (page' < page => lastOp'.op = "reset") ]_vars

\* reset() has just brought the component back from a later page to page 1.
C10_Witness ==
  /\ lastOp.op = "reset"
  /\ lastOp.key > 1
  /\ page = 1
  /\ queries[2].exists

\* C11: once hasMore is false it stays false through every loadMore(),
\* refetch and fetch completion; only reset() makes it true again, and
\* reset() always leaves page = 1 and hasMore = true.
C11_HasMoreFalseUntilReset ==
  [][ /\ (~hasMore /\ hasMore') => lastOp'.op = "reset"
      /\ lastOp'.op = "reset" => (page' = 1 /\ hasMore') ]_vars

\* hasMore is false and a full page has just been delivered to the
\* component (a refetch of the short page returned more items).
C11_Witness ==
  /\ ~hasMore
  /\ lastOp.op = "ResponseOk"
  /\ lastOp.key = page
  /\ lastOp.len >= pageSizeOption
  /\ InfHook \in queries[page].observers

\* C12: the completion of a page fetch that was triggered before the last
\* reset() or page change changes neither hasMore, nor page, nor the data
\* the component is shown for its current page.
C12_FetchFromBeforeResetIsDiscarded ==
  [][ (lastOp'.op = "ResponseOk" /\ lastOp'.r.seq <= keyEpoch)
        => /\ hasMore' = hasMore
           /\ page' = page
           /\ Data(page)' = Data(page) ]_vars

\* C13: the debounced key of a mounted component changes only when its timer
\* fires, at least delay ms after the most recent change of queryKey, and
\* the key it changes to is the queryKey of the last render, never one that
\* was superseded.
C13_CommitOnlyAfterQuietDelay ==
  [][ (dbMounted /\ dbMounted' /\ debouncedQueryKey' # debouncedQueryKey)
        => /\ lastOp'.op = "TimerFire"
           /\ dbNow >= rawChangedAt + dbDelay
           /\ rawChangedAt' = rawChangedAt
           /\ debouncedQueryKey' = dbQueryKey ]_vars

\* The timer of the third change of queryKey in a row has just fired, late,
\* and the debounced key changed to the queryKey of the last render.
C13_Witness ==
  /\ lastOp.op = "TimerFire"
  /\ lastOp.len = 3
  /\ dbChanges = 1
  /\ dbNow > rawChangedAt + dbDelay
  /\ debouncedQueryKey = dbQueryKey

\* C14 as stated: the firing that ends a burst of k >= 1 changes of queryKey
\* (each cancelling the timer of the one before) is exactly one change of
\* the debounced key, to the last queryKey of the burst.
C14_BurstIsExactlyOneChange ==
  [][ (lastOp'.op = "TimerFire" /\ dbMounted /\ lastOp'.len >= 1)
        => /\ debouncedQueryKey' = dbQueryKey
           /\ debouncedQueryKey' # debouncedQueryKey
           /\ dbChanges' = 1 ]_vars

\* C14, amended: a burst of k >= 1 changes of queryKey is followed by at
\* most one change of the debounced key; the firing that ends the burst
\* leaves the debounced key equal to the last queryKey of the burst, which
\* is one change when that key differs from the debounced key and none when
\* it equals it; the debounced key then changes no more before queryKey
\* changes again.
C14_BurstCommitsOnce ==
  [][ /\ dbChanges' <= 1
      /\ (lastOp'.op = "TimerFire" /\ dbMounted /\ lastOp'.len >= 1)
           => /\ debouncedQueryKey' = dbQueryKey
              /\ dbChanges' = (IF dbQueryKey # debouncedQueryKey THEN 1 ELSE 0)
      /\ (dbMounted /\ dbMounted' /\ debouncedQueryKey' # debouncedQueryKey)
           => dbBurst >= 1 ]_vars

\* The timer of a burst of three changes of queryKey has fired and changed
\* the debounced key; since then the delay argument changed and the timer
\* armed for it fired as well, without another change of the debounced key.
C14_Witness ==
  /\ lastOp.op = "TimerFire"
  /\ lastOp.len = 0
  /\ dbMounted
  /\ dbChanges = 1
  /\ debouncedQueryKey = dbQueryKey
  /\ rawChangedAt > 0

\* C15: at most one debounce timer is pending; a change of queryKey leaves
\* only the timer it armed; after unmount no timer is pending, so no timer
\* fires on an unmounted component.
C15_AtMostOneTimer ==
  /\ Cardinality(dbTimers) <= 1
  /\ (~dbMounted => dbTimers = {})
  /\ (lastOp.op \in {"DebSetQueryKey", "DebSetDelay"}
        => dbTimers = {[key |-> dbQueryKey, due |-> dbNow + dbDelay]})
  /\ (lastOp.op = "TimerFire" => dbMounted)

\* The component has just unmounted while its timer was pending, and the
\* timer is gone.
C15_Witness ==
  /\ lastOp.op = "DebUnmount"
  /\ lastOp.len = 1
  /\ dbBurst >= 1
  /\ dbTimers = {}

\* C16: the fan-out resolves with exactly one entry per input segment, and
\* entry i is the entry of input segment i, whatever the order in which the
\* calls complete.
C16_OneEntryPerSegmentInOrder ==
  allPromise.status = "fulfilled"
    => /\ Len(allPromise.value) = Len(segments)
       /\ \A i \in DOMAIN segments :
            /\ allPromise.value[i].segment_id = segments[i].segment_id
            /\ allPromise.value[i].insights
                 \in {null, getSegmentInsights(segments[i].segment_id)}

\* Three segments, the calls completed in the order 3, 1, 2, and the
\* fan-out has resolved.
C16_Witness ==
  /\ allPromise.status = "fulfilled"
  /\ Len(segments) = 3
  /\ settleOrder = <<3, 1, 2>>
  /\ \A i \in 1..3 : caught[i] = "none"

C18_EntryCarriesError ==
  allPromise.status = "fulfilled"
    => \A i \in DOMAIN segments :
         LET entry == allPromise.value[i] IN
           IF caught[i] # "none"
           THEN /\ entry.insights = null
                /\ "error" \in DOMAIN entry
                /\ entry.error = caught[i]
           ELSE "error" \in DOMAIN entry => entry.error = "none"

\* C19: after a successful login, once a 401 response has been handled by
\* the client that handles 401 responses, localStorage holds no auth token:
\* the token that login stored is gone.
C19_401ClearsLoginToken ==
  (/\ lastOp.op = "ApiResponse"
   /\ lastResponse.status = 401
   /\ hasResponseInterceptor(lastResponse.client)
   /\ loginStored # 0)
  => \A k \in StorageKeys : localStorage[k] = 0

\* C20: a 401 response to a request made through any of analyticsApi,
\* recommendationApi and userApi fires the session-expired handler: the
\* document is sent to /login.
C20_Any401FiresSessionExpired ==
  [][ (lastOp'.op = "ApiResponse" /\ lastResponse'.status = 401)
        => /\ sessionExpired' = sessionExpired + 1
           /\ location' = "/login"
           /\ navigating' ]_vars

\* C23: retry() puts the retryCount the component is given back to zero and
\* triggers the fetch again; retryCount is also zero after a successful
\* fetch of the component's key and after a change of its key.
C23_RetryResetsRetryCount ==
  [][ /\ lastOp'.op = "handleRetry"
           => /\ \A h \in ApiHooks :
                   hRetryCount'[h] = 0 \/ hRetryCount'[h] = hRetryCount[h]
              /\ queries'[lastOp'.key].isFetching
      /\ lastOp'.op = "ResponseOk"
           => \A h \in ApiHooks :
                (hMounted[h] /\ hKey[h] = lastOp'.key) => hRetryCount'[h] = 0
      /\ lastOp'.op = "SetKey"
           => \A h \in ApiHooks :
                hKey'[h] # hKey[h] => hRetryCount'[h] = 0 ]_vars

\* C27: every page before the current one has been fetched successfully,
\* also when loadMore() is called twice in one event and when the fetch of
\* the current page has ended in error.
C27_NoPageSkipped ==
  \A p \in 1..(page - 1) : fetchedAt[p] # 0

\* C21: from a successful login until the next logout or 401, every request
\* an API client sends carries the token that login stored as its
\* Authorization; with no login in force and no token stored, a request
\* carries no Authorization.
C21_RequestsCarryLoginToken ==
  [][ lastOp'.op = "ApiRequest"
        => \A req \in requests' \ requests :
             /\ (loginStored # 0 /\ ~unauthorized)
                  => req.authorization = loginStored
             /\ (loginStored = 0 /\ localStorage["token"] = 0)
                  => req.authorization = 0 ]_vars

\* C22: every failed API call is rejected to its caller, a 401 that passed
\* the response interceptor included, which also removes the token and
\* sends the document to /login; a failure with any other status, or with
\* no response, leaves localStorage and the location as they were.
C22_FailureIsRejected ==
  [][ (lastOp'.op = "ApiResponse" /\ lastResponse'.status # 200)
        => /\ lastResponse'.outcome = "rejected"
           /\ (lastResponse'.status = 401 /\ hasResponseInterceptor(lastResponse'.client))
                => /\ sessionExpired' = sessionExpired + 1
                   /\ location' = "/login"
                   /\ localStorage'["authToken"] = 0
           /\ lastResponse'.status # 401
                => /\ localStorage' = localStorage
                   /\ location' = location
                   /\ navigating' = navigating
                   /\ sessionExpired' = sessionExpired ]_vars

\* A 401 came back through analyticsApi: the caller got a rejection and the
\* document is on its way to /login.
C22_Witness ==
  /\ lastOp.op = "ApiResponse"
  /\ lastResponse.status = 401
  /\ lastResponse.client = "analyticsApi"
  /\ lastResponse.outcome = "rejected"
  /\ location = "/login"
  /\ navigating

\* C26: a failed login or register has returned false, never thrown, and has
\* left one error string that is not empty, whatever the shape of the detail
\* of the failure.
C26_FailureLeavesOneError ==
  (lastOp.op \in {"LoginResponse", "RegisterResponse"} /\ lastResponse.status # 200)
    => /\ authResult.result = "false"
       /\ authError \notin {"none", ""}

\* C28: when login, called by the user or by register, has returned true,
\* the user is set and localStorage holds the token.
C28_TrueMeansAuthenticated ==
  (lastOp.op = "FetchUserResponse" /\ lastResponse.caller # "mount"
     /\ authResult.result = "true")
    => /\ user # 0
       /\ localStorage["token"] # 0

\* C29: while isAuthenticated is true, localStorage holds a token.
C29_AuthenticatedImpliesToken ==
  user # 0 => localStorage["token"] # 0

\* C30: the failure of a fetchUser that the mount effect sent for an earlier
\* token, arriving after a login has succeeded, leaves the user
\* authenticated and the token of the login in localStorage.
C30_OlderFetchUserDoesNotOverride ==
  [][ ( /\ lastOp'.op = "FetchUserResponse"
        /\ lastResponse'.caller = "mount"
        /\ lastResponse'.status # 200
        /\ loginStored # 0
        /\ lastResponse'.authorization # loginStored
        /\ user # 0 )
        => /\ user' = user
           /\ localStorage'["token"] = loginStored ]_vars

\* C24: while the enabled option of the component is false, no trigger --
\* mount, key change, interval timer, retry() or refetch() -- starts a fetch.
C24_DisabledNeverFetches ==
  [][ ( /\ lastOp'.op \in {"PollMount", "PollSetKey", "PollIntervalFire",
                          "PollRefetch", "PollHandleRetry"}
        /\ ~enabled' )
        => /\ nextSeq' = nextSeq
           /\ retryers' = retryers ]_vars

\* C25: the interval timer of usePollingApi fires only while the component
\* is mounted, one interval (30000 ms by default) after it was set or last
\* fired, and then a fetch is in flight however fresh the data is, and the
\* timer is set for one interval later; a mounted, enabled component always
\* has its timer set, and unmounting clears it.
C25_PollsEveryInterval ==
  [][ /\ lastOp'.op = "PollIntervalFire"
          => /\ hMounted[PollHook]
             /\ clock = pollDue
             /\ queries'[hKey[PollHook]].isFetching
             /\ pollDue' = clock + 30000
      /\ (hMounted'[PollHook] /\ enabled')
          => (pollDue' # 0 /\ pollDue' <= clock' + 30000)
      /\ ~hMounted'[PollHook] => pollDue' = 0 ]_vars

\* The timer has fired on fresh data and started a fetch of its own.
C25_Witness ==
  /\ lastOp.op = "PollIntervalFire"
  /\ queries[lastOp.key].dataUpdatedAt # 0
  /\ ~isStale(queries[lastOp.key], clock)
  /\ \E r \in retryers :
       r.key = lastOp.key /\ r.phase = "calling" /\ r.startedAt = clock
         /\ r.startedAt > queries[lastOp.key].dataUpdatedAt

====
